---- MODULE Spec2Model ----
(***************************************************************************)
(* A model of the Dex-Trade REST client (src/api.py): the signing engine   *)
(* DexTradeAPI._generate_signature, the request dispatcher                 *)
(* DexTradeAPI._make_request with the shared requests.Session it mutates,  *)
(* and the endpoint wrappers that call it.                                 *)
(***************************************************************************)
EXTENDS Integers, Sequences, FiniteSets, TLC

(***************************************************************************)
(* Python values.  A parameter value is a str, an int, a float or a dict;  *)
(* every value is a record of the same shape, the tag t saying which field *)
(* is meant.  A float is held in tenths (15 is 1.5).  A dict is the        *)
(* sequence of its items [k, v] in insertion order, keys distinct.         *)
(* Optional[...] is a sequence of length 0 (None) or 1.                    *)
(***************************************************************************)
StrV(s) == [t |-> "str", s |-> s, n |-> 0, d |-> <<>>]

IntV(n) == [t |-> "int", s |-> "", n |-> n, d |-> <<>>]

FloatV(n) == [t |-> "float", s |-> "", n |-> n, d |-> <<>>]

DictV(d) == [t |-> "dict", s |-> "", n |-> 0, d |-> d]

Item(k, v) == [k |-> k, v |-> v]

None == <<>>

Some(x) == <<x>>

DigitChar == <<"0", "1", "2", "3", "4", "5", "6", "7", "8", "9">>

RECURSIVE Digits(_)
\* str(n) of a non-negative int: its decimal digits.
Digits(n) ==
    IF n < 10 THEN DigitChar[n + 1]
    ELSE Digits(n \div 10) \o DigitChar[(n % 10) + 1]

\* str(value), for the scalars a parameter set holds.
PyStr(v) ==
    CASE v.t = "str" -> v.s
      [] v.t = "int" -> Digits(v.n)
      [] v.t = "float" -> Digits(v.n \div 10) \o "." \o Digits(v.n % 10)
      [] OTHER -> "{...}"

\* Python's ordering of the key strings the model uses, ascending.
KeyOrder ==
    <<"a", "b", "c", "iso", "network", "new", "order_id", "pair", "rate",
      "request_id", "stop_rate", "type", "type_trade", "volume", "x", "y">>

Rank(k) == CHOOSE i \in 1..Len(KeyOrder) : KeyOrder[i] = k

KeyLess(k1, k2) == Rank(k1) < Rank(k2)

Keys(items) == {items[i].k : i \in 1..Len(items)}

HasKey(items, k) == k \in Keys(items)

Lookup(items, k) == items[CHOOSE i \in 1..Len(items) : items[i].k = k].v

\* params[k] = v on a dict: replaces the value in place, or appends the item.
SetItem(items, k, v) ==
    IF HasKey(items, k)
    THEN [i \in 1..Len(items) |->
             IF items[i].k = k THEN Item(k, v) ELSE items[i]]
    ELSE Append(items, Item(k, v))

RECURSIVE InsertItem(_, _)
InsertItem(e, s) ==
    IF s = <<>> THEN <<e>>
    ELSE IF KeyLess(e.k, Head(s).k) THEN <<e>> \o s
    ELSE <<Head(s)>> \o InsertItem(e, Tail(s))

\* A sort that was forgotten: the items stay in insertion order.
UnsortedItems(items) == items

RECURSIVE SortedItems(_)
\* dict(sorted(d.items())): the items in ascending key order.
SortedItems(items) ==
    IF items = <<>> THEN <<>>
    ELSE InsertItem(Head(items), SortedItems(Tail(items)))

RECURSIVE StrValues(_)
\* [str(v) for v in d.values()]
StrValues(items) ==
    IF items = <<>> THEN <<>>
    ELSE <<PyStr(Head(items).v)>> \o StrValues(Tail(items))

RECURSIVE FlattenWithKeys(_)
\* A flattening that also hashes the key of every top-level entry.
FlattenWithKeys(sorted) ==
    IF sorted = <<>> THEN <<>>
    ELSE LET e == Head(sorted) IN
         (IF e.v.t = "dict"
          THEN <<e.k>> \o StrValues(SortedItems(e.v.d))
          ELSE <<e.k, PyStr(e.v)>>) \o FlattenWithKeys(Tail(sorted))

RECURSIVE FlattenSkipDicts(_)
\* A flattening that leaves nested mappings out of the hash.
FlattenSkipDicts(sorted) ==
    IF sorted = <<>> THEN <<>>
    ELSE LET e == Head(sorted) IN
         (IF e.v.t = "dict" THEN <<>> ELSE <<PyStr(e.v)>>)
             \o FlattenSkipDicts(Tail(sorted))

RECURSIVE FlattenValues(_)
\* The loop over sorted_params: the list `values`.
FlattenValues(sorted) ==
    IF sorted = <<>> THEN <<>>
    ELSE LET e == Head(sorted) IN
         (IF e.v.t = "dict"
          THEN StrValues(SortedItems(e.v.d))
          ELSE <<PyStr(e.v)>>) \o FlattenValues(Tail(sorted))

RECURSIVE Join(_)
\* ''.join(values)
Join(values) ==
    IF values = <<>> THEN "" ELSE Head(values) \o Join(Tail(values))

\* `not self.config.secret`: None or the empty string.
SecretMissing(sec) == sec = None \/ sec[1] = ""

\* values_str: the text that is hashed.
ValuesStr(params, sec) == Join(FlattenValues(SortedItems(params))) \o sec[1]

\* hashlib.sha256(...).hexdigest(), as a collision-free hash: an injective
\* image of the text hashed.
Sha256Hex(text) == "sha256(" \o text \o ")"

MissingSecretError == "ValueError: Secret key is required for private API calls"

\* A signer without the guard on the secret: an absent secret signs as "".
SignUnguarded(params, sec) ==
    [raised |-> FALSE,
     sig |-> Sha256Hex(Join(FlattenValues(SortedItems(params)))
                          \o (IF sec = None THEN "" ELSE sec[1]))]

\* _generate_signature: raises when the secret is missing, else the digest.
_generate_signature(params, sec) ==
    IF SecretMissing(sec)
    THEN [raised |-> TRUE, sig |-> MissingSecretError]
    ELSE [raised |-> FALSE, sig |-> Sha256Hex(ValuesStr(params, sec))]

(***************************************************************************)
(* The client.  secret and login_token are the DexTradeConfig fields the   *)
(* client reads; headers is session.headers, the one header set every call *)
(* through the client shares, as a set of <<name, value>> pairs.  clock is *)
(* time.time() in microseconds.  Each caller (a thread calling into the    *)
(* client) is idle, or inside _make_request before the transport call      *)
(* ("send") or waiting for its response ("recv"); call[c] holds the frame  *)
(* of its call and outcome[c] how its last call ended.                     *)
(* signIn, signOut, signIn2, signOut2 and signStage are the arguments and  *)
(* results of direct calls of _generate_signature.                        *)
(***************************************************************************)
VARIABLES secret, login_token, headers, clock, pc, call, outcome,
          signIn, signOut, signIn2, signOut2, signStage

vars == <<secret, login_token, headers, clock, pc, call, outcome,
          signIn, signOut, signIn2, signOut2, signStage>>

clientVars == <<secret, login_token, headers, clock, pc, call, outcome>>

signVars == <<signIn, signOut, signIn2, signOut2, signStage>>

\* Callers that may be inside the client at once.
NumCallers == 2

\* The clock readings 0..MaxClock.
MaxClock == 1

Callers == 1..NumCallers

\* TradeType and OrderType: the wire value of each member.
TradeType ==
    [LIMIT |-> 0, MARKET |-> 1, STOP_LIMIT |-> 2, QUICK_MARKET |-> 3,
     HIDDEN_LIMIT |-> 4]

OrderType == [BUY |-> 0, SELL |-> 1]

TradeTypes == DOMAIN TradeType

\* Arguments the callers pass.
Pairs == {"BTCUSDT"}

Volumes == {5}

Rates == {None, Some(15)}

StopRates == {None, Some(20)}

OrderIds == {7}

Networks == {None, Some("ERC20")}

RawParams == {None, Some(<<Item("request_id", StrV("7"))>>)}

\* The configurations a client is constructed with.
Configs ==
    {[login_token |-> None, secret |-> None],
     [login_token |-> Some("tok"), secret |-> Some("")],
     [login_token |-> Some("tok"), secret |-> Some("s")]}

OrderTypes == {"BUY"}

\* What the transport may answer: a status and a body that is, or is not, JSON.
Statuses == {200, 304, 500}

Bodies == {[text |-> "{\"data\": []}", json |-> TRUE],
           [text |-> "<html>", json |-> FALSE]}

NoArgs == [type_trade |-> "", rate |-> None, stop_rate |-> None]

NoCall ==
    [op |-> "", args |-> NoArgs, method |-> "", endpoint |-> "",
     params |-> None, private |-> FALSE, given |-> None, signed |-> None,
     synth |-> FALSE, sent |-> None, sends |-> 0]

NoOutcome ==
    [op |-> "", args |-> NoArgs, private |-> FALSE, kind |-> "",
     status |-> 0, data |-> None, sends |-> 0]

\* __init__: the session's headers once the client is constructed.
SessionHeaders(token) ==
    IF token # None /\ token[1] # ""
    THEN {<<"login-token", token[1]>>, <<"content-type", "application/json">>}
    ELSE {}

\* session.headers.update({name: value})
HeadersUpdate(h, name, value) ==
    {x \in h : x[1] # name} \cup {<<name, value>>}

HasHeader(h, name) == \E x \in h : x[1] = name

HeaderValue(h, name) == (CHOOSE x \in h : x[1] = name)[2]

Init ==
    /\ \E config \in Configs :
          /\ secret = config.secret
          /\ login_token = config.login_token
    /\ headers = SessionHeaders(login_token)
    /\ clock = 0
    /\ pc = [c \in Callers |-> "idle"]
    /\ call = [c \in Callers |-> NoCall]
    /\ outcome = [c \in Callers |-> NoOutcome]
    /\ signIn = <<>>
    /\ signOut = [raised |-> FALSE, sig |-> ""]
    /\ signIn2 = <<>>
    /\ signOut2 = [raised |-> FALSE, sig |-> ""]
    /\ signStage = "none"

\* The wall clock advances.
Tick ==
    /\ clock < MaxClock
    /\ clock' = clock + 1
    /\ UNCHANGED <<secret, login_token, headers, pc, call, outcome>>
    /\ UNCHANGED signVars

\* A call that raises before anything is sent.
Raise(c, op, args, private, kind) ==
    /\ outcome' = [outcome EXCEPT ![c] =
           [op |-> op, args |-> args, private |-> private, kind |-> kind,
            status |-> 0, data |-> None, sends |-> 0]]
    /\ UNCHANGED <<secret, login_token, headers, clock, pc, call>>
    /\ UNCHANGED signVars

\* `if not params: params = {}`
OrEmpty(params) == IF params = None THEN <<>> ELSE params[1]

\* A request id that replaces the one the caller gave.
WithFreshRequestId(params, now) ==
    SetItem(params, "request_id", StrV(Digits(now)))

\* `if 'request_id' not in params: params['request_id'] = str(int(time.time() * 1000000))`
WithRequestId(params, now) ==
    IF HasKey(params, "request_id") THEN params
    ELSE SetItem(params, "request_id", StrV(Digits(now)))

\* _make_request up to the transport call: for a private call the request
\* id, the signature and the update of the session's headers.
Enter(c, op, args, method, endpoint, params, private) ==
    /\ pc[c] = "idle"
    /\ LET p == IF private
                THEN Some(WithRequestId(OrEmpty(params), clock))
                ELSE params
           signature == _generate_signature(OrEmpty(p), secret)
       IN IF private /\ signature.raised
          THEN Raise(c, op, args, private, "MissingSecret")
          ELSE /\ headers' = IF private
                             THEN HeadersUpdate(headers, "x-auth-sign",
                                                signature.sig)
                             ELSE headers
               /\ pc' = [pc EXCEPT ![c] = "send"]
               /\ call' = [call EXCEPT ![c] =
                      [op |-> op, args |-> args, method |-> method,
                       endpoint |-> endpoint, params |-> p,
                       private |-> private, given |-> params,
                       signed |-> IF private THEN p ELSE None,
                       synth |-> private
                                 /\ ~HasKey(OrEmpty(params), "request_id"),
                       sent |-> None, sends |-> 0]]
               /\ UNCHANGED <<secret, login_token, clock, outcome>>
               /\ UNCHANGED signVars

\* The transport call of _make_request: session.get(url, params=params) or
\* session.post(url, json=params).  The session merges its headers, as
\* they are now, into the request it sends.
Send(c) ==
    /\ pc[c] = "send"
    /\ pc' = [pc EXCEPT ![c] = "recv"]
    /\ call' = [call EXCEPT
           ![c].sent = Some([method |-> call[c].method,
                             endpoint |-> call[c].endpoint,
                             query |-> IF call[c].method = "GET"
                                       THEN call[c].params ELSE None,
                             json |-> IF call[c].method = "GET"
                                      THEN None ELSE call[c].params,
                             headers |-> headers]),
           ![c].sends = call[c].sends + 1]
    /\ UNCHANGED <<secret, login_token, headers, clock, outcome>>
    /\ UNCHANGED signVars

\* The end of a call that reached the transport.
Return(c, kind, status, data, sends) ==
    /\ outcome' = [outcome EXCEPT ![c] =
           [op |-> call[c].op, args |-> call[c].args,
            private |-> call[c].private, kind |-> kind, status |-> status,
            data |-> data, sends |-> sends]]
    /\ pc' = [pc EXCEPT ![c] = "idle"]
    /\ call' = [call EXCEPT ![c] = NoCall]
    /\ UNCHANGED <<secret, login_token, headers, clock>>
    /\ UNCHANGED signVars

\* The transport call itself fails (DNS, TLS, timeout): its exception
\* leaves _make_request as it is.
TransportFails(c) ==
    /\ pc[c] = "send"
    /\ Return(c, "TransportError", 0, None, call[c].sends + 1)

\* response.raise_for_status(): requests raises HTTPError for a client error
\* (400..499) or a server error (500..599) and returns for any other status.
RaisesForStatus(status) == 400 <= status /\ status < 600

\* The response arrives: raise_for_status(), then response.json().
Respond(c) ==
    /\ pc[c] = "recv"
    /\ \E status \in Statuses, body \in Bodies :
          IF RaisesForStatus(status)
          THEN Return(c, "HTTPError", status, None, call[c].sends)
          ELSE IF body.json
          THEN Return(c, "returned", status, Some(body.text), call[c].sends)
          ELSE Return(c, "JSONDecodeError", status, None, call[c].sends)

(***************************************************************************)
(* The endpoint methods.                                                   *)
(***************************************************************************)
get_symbols(c) ==
    Enter(c, "get_symbols", NoArgs, "GET", "/public/symbols", None, FALSE)

get_ticker(c) ==
    \E pair \in Pairs :
        Enter(c, "get_ticker", NoArgs, "GET", "/public/ticker",
              Some(<<Item("pair", StrV(pair))>>), FALSE)

get_order_book(c) ==
    \E pair \in Pairs :
        Enter(c, "get_order_book", NoArgs, "GET", "/public/book",
              Some(<<Item("pair", StrV(pair))>>), FALSE)

get_trade_history(c) ==
    \E pair \in Pairs :
        Enter(c, "get_trade_history", NoArgs, "GET", "/public/trades",
              Some(<<Item("pair", StrV(pair))>>), FALSE)

OrderBase(pair, type_trade, order_type, volume) ==
    <<Item("pair", StrV(pair)),
      Item("type_trade", IntV(TradeType[type_trade])),
      Item("type", IntV(OrderType[order_type])),
      Item("volume", StrV(PyStr(FloatV(volume))))>>

\* An order builder that does not ask for the stop rate.
OrderParamsNoStopCheck(pair, type_trade, order_type, volume, rate, stop_rate) ==
    LET base == OrderBase(pair, type_trade, order_type, volume)
        needsRate == type_trade \in {"LIMIT", "STOP_LIMIT"}
        withRate == IF needsRate /\ rate # None
                    THEN SetItem(base, "rate", StrV(PyStr(FloatV(rate[1]))))
                    ELSE base
    IN IF needsRate /\ rate = None
       THEN [raised |-> TRUE, params |-> base]
       ELSE IF type_trade = "STOP_LIMIT" /\ stop_rate # None
       THEN [raised |-> FALSE,
             params |-> SetItem(withRate, "stop_rate",
                                StrV(PyStr(FloatV(stop_rate[1]))))]
       ELSE [raised |-> FALSE, params |-> withRate]

\* create_order before its dispatch: the parameters, or the ValueError for
\* a rate or a stop rate that is required and is None.
OrderParams(pair, type_trade, order_type, volume, rate, stop_rate) ==
    LET base == OrderBase(pair, type_trade, order_type, volume)
        needsRate == type_trade \in {"LIMIT", "STOP_LIMIT"}
        withRate == IF needsRate /\ rate # None
                    THEN SetItem(base, "rate", StrV(PyStr(FloatV(rate[1]))))
                    ELSE base
    IN IF needsRate /\ rate = None
       THEN [raised |-> TRUE, params |-> base]
       ELSE IF type_trade = "STOP_LIMIT" /\ stop_rate = None
       THEN [raised |-> TRUE, params |-> withRate]
       ELSE IF type_trade = "STOP_LIMIT"
       THEN [raised |-> FALSE,
             params |-> SetItem(withRate, "stop_rate",
                                StrV(PyStr(FloatV(stop_rate[1]))))]
       ELSE [raised |-> FALSE, params |-> withRate]

create_order(c) ==
    /\ pc[c] = "idle"
    /\ \E pair \in Pairs, type_trade \in TradeTypes,
          order_type \in OrderTypes, volume \in Volumes,
          rate \in Rates, stop_rate \in StopRates :
          LET r == OrderParams(pair, type_trade, order_type, volume, rate,
                               stop_rate)
              args == [type_trade |-> type_trade, rate |-> rate,
                       stop_rate |-> stop_rate]
          IN IF r.raised
             THEN Raise(c, "create_order", args, TRUE, "InvalidArgument")
             ELSE Enter(c, "create_order", args, "POST",
                        "/private/create-order", Some(r.params), TRUE)

get_active_orders(c) ==
    Enter(c, "get_active_orders", NoArgs, "POST", "/private/orders",
          Some(<<>>), TRUE)

get_order(c) ==
    \E order_id \in OrderIds :
        Enter(c, "get_order", NoArgs, "POST", "/private/get-order",
              Some(<<Item("order_id", StrV(Digits(order_id)))>>), TRUE)

cancel_order(c) ==
    \E order_id \in OrderIds :
        Enter(c, "cancel_order", NoArgs, "POST", "/private/delete-order",
              Some(<<Item("order_id", StrV(Digits(order_id)))>>), TRUE)

get_balances(c) ==
    Enter(c, "get_balances", NoArgs, "POST", "/private/balances",
          Some(<<>>), TRUE)

get_deposit_address(c) ==
    \E currency \in {"BTC"}, network \in Networks, new \in {FALSE} :
        LET base == <<Item("iso", StrV(currency)),
                      Item("new", IntV(IF new THEN 1 ELSE 0))>>
        IN Enter(c, "get_deposit_address", NoArgs, "POST",
                 "/private/get-address",
                 Some(IF network # None /\ network[1] # ""
                      THEN SetItem(base, "network", StrV(network[1]))
                      ELSE base),
                 TRUE)

\* A caller of _make_request itself.
_make_request(c) ==
    \E method \in {"GET", "POST"}, params \in RawParams, private \in BOOLEAN :
        Enter(c, "_make_request", NoArgs, method, "/private/orders", params,
              private)

\* A caller starts one of the client's operations.
Begin(c) ==
    \/ get_symbols(c)
    \/ get_ticker(c)
    \/ get_order_book(c)
    \/ get_trade_history(c)
    \/ create_order(c)
    \/ get_active_orders(c)
    \/ get_order(c)
    \/ cancel_order(c)
    \/ get_balances(c)
    \/ get_deposit_address(c)
    \/ _make_request(c)

\* The client used from one thread: every call ends before the next starts.
NextSeq == Tick \/ Begin(1) \/ Send(1) \/ TransportFails(1) \/ Respond(1)

SpecSeq == Init /\ [][NextSeq]_vars

\* The client shared by the callers, each issuing one call; the calls
\* interleave at the transport call and at the clock.
Next ==
    \/ Tick
    \/ \E c \in Callers :
          \/ outcome[c] = NoOutcome /\ Begin(c)
          \/ Send(c)
          \/ TransportFails(c)
          \/ Respond(c)

Spec == Init /\ [][Next]_vars

(***************************************************************************)
(* _generate_signature called directly, on parameter sets drawn from the   *)
(* sets below: once on signIn, then on a second mapping signIn2 that holds *)
(* the same items in another insertion order (Reorder), one other value    *)
(* under one key (Tamper), or one key under another name (Rename).         *)
(***************************************************************************)
\* Items of a parameter set, and of a nested mapping, at most.
MaxParams == 2

MaxNested == 2

TopKeys == {"a", "b", "c"}

ScalarVals == {StrV("1"), StrV("12"), IntV(3)}

NestedItems ==
    {Item("x", IntV(1)), Item("x", IntV(2)), Item("y", IntV(2))}

\* The mappings of at most `most` of the items, keys distinct, in every
\* insertion order.
Mappings(items, most) ==
    UNION {{m \in [1..n -> items] :
               \A i, j \in 1..n : i # j => m[i].k # m[j].k} : n \in 0..most}

SignValues == ScalarVals \cup {DictV(d) : d \in Mappings(NestedItems, MaxNested)}

SignInputs ==
    Mappings({Item(k, v) : k \in TopKeys, v \in SignValues}, MaxParams)

TamperVals ==
    {StrV("3"), StrV("12"),
     DictV(<<Item("x", IntV(1)), Item("y", IntV(2))>>)}

Range(f) == {f[i] : i \in DOMAIN f}

\* The insertion orders of the same items.
Perms(items) ==
    {q \in [1..Len(items) -> Range(items)] : Range(q) = Range(items)}

Variants(e) ==
    IF e.v.t = "dict"
    THEN {Item(e.k, DictV(d)) : d \in Perms(e.v.d)}
    ELSE {e}

RECURSIVE EachVariant(_)
EachVariant(items) ==
    IF items = <<>> THEN {<<>>}
    ELSE {<<e>> \o rest : e \in Variants(Head(items)),
                          rest \in EachVariant(Tail(items))}

\* The mappings equal to `items` as mappings: the same key-to-value pairs at
\* the top level and in every nested mapping, in any insertion order.
Reorderings(items) == UNION {EachVariant(p) : p \in Perms(items)}

InitSign ==
    /\ \E config \in {x \in Configs : ~SecretMissing(x.secret)} :
          /\ secret = config.secret
          /\ login_token = config.login_token
    /\ headers = SessionHeaders(login_token)
    /\ clock = 0
    /\ pc = [c \in Callers |-> "idle"]
    /\ call = [c \in Callers |-> NoCall]
    /\ outcome = [c \in Callers |-> NoOutcome]
    /\ signIn \in SignInputs
    /\ signOut = [raised |-> FALSE, sig |-> ""]
    /\ signIn2 = <<>>
    /\ signOut2 = [raised |-> FALSE, sig |-> ""]
    /\ signStage = "input"

Sign ==
    /\ signStage = "input"
    /\ signOut' = _generate_signature(signIn, secret)
    /\ signStage' = "signed"
    /\ UNCHANGED <<signIn, signIn2, signOut2>>
    /\ UNCHANGED clientVars

SignSecond(m, stage) ==
    /\ signStage = "signed"
    /\ ~signOut.raised
    /\ signIn2' = m
    /\ signOut2' = _generate_signature(m, secret)
    /\ signStage' = stage
    /\ UNCHANGED <<signIn, signOut>>
    /\ UNCHANGED clientVars

Reorder == \E m \in Reorderings(signIn) : SignSecond(m, "reordered")

Tamper ==
    \E i \in 1..Len(signIn), v \in TamperVals :
        /\ v # signIn[i].v
        /\ SignSecond([signIn EXCEPT ![i] = Item(signIn[i].k, v)], "tampered")

Rename ==
    \E i \in 1..Len(signIn), k \in TopKeys \ Keys(signIn) :
        SignSecond([signIn EXCEPT ![i] = Item(k, signIn[i].v)], "renamed")

NextSign == Sign \/ Reorder \/ Tamper \/ Rename

SpecSign == InitSign /\ [][NextSign]_vars

(***************************************************************************)
(* The properties.                                                         *)
(***************************************************************************)
\* The mapping a request carries: its query string (GET) or its JSON body.
Transmitted(r) == IF r.method = "GET" THEN r.query ELSE r.json

\* The request caller c's call has handed to the transport.
SentBy(c) == call[c].sent[1]

HasSent(c) == pc[c] = "recv"

\* create_order's arguments hold every value its trade type requires.
RequiredSupplied(args) ==
    /\ args.type_trade \in {"LIMIT", "STOP_LIMIT"} => args.rate # None
    /\ args.type_trade = "STOP_LIMIT" => args.stop_rate # None

\* The call that ended in outcome o was a private operation past its own
\* argument checks.
PrivateAttempt(o) ==
    /\ o.private
    /\ o.op = "create_order" => RequiredSupplied(o.args)

\* C1: on a client whose secret is None or "", every private operation
\* (create_order with valid arguments included) ends in the missing-secret
\* error with no transport call, no private call is ever past the signer,
\* and the session's headers stay those the constructor set.
C1_MissingSecretFailsClosed ==
    SecretMissing(secret) =>
        /\ headers = SessionHeaders(login_token)
        /\ \A c \in Callers :
              /\ pc[c] # "idle" => ~call[c].private
              /\ PrivateAttempt(outcome[c]) =>
                    /\ outcome[c].kind = "MissingSecret"
                    /\ outcome[c].sends = 0

C1_Witness ==
    /\ secret = Some("")
    /\ outcome[1].op = "create_order"
    /\ RequiredSupplied(outcome[1].args)
    /\ outcome[1].kind = "MissingSecret"
    /\ headers = SessionHeaders(login_token)

\* C2: every transmitted private request carries an x-auth-sign header equal
\* to the signature of the parameters transmitted in that same request, in
\* every interleaving of the callers.
C2_SignatureMatchesOwnBody ==
    \A c \in Callers :
        HasSent(c) /\ call[c].private =>
            /\ HasHeader(SentBy(c).headers, "x-auth-sign")
            /\ HeaderValue(SentBy(c).headers, "x-auth-sign")
                  = _generate_signature(OrEmpty(Transmitted(SentBy(c))),
                                        secret).sig

\* C3: a request sent for a public operation carries no x-auth-sign header,
\* whatever calls came before it.
C3_PublicRequestUnsigned ==
    \A c \in Callers :
        HasSent(c) /\ ~call[c].private =>
            ~HasHeader(SentBy(c).headers, "x-auth-sign")

\* C4: in a private call with no other call in flight, the mapping signed is
\* the mapping transmitted, request_id included; a request_id the caller
\* gave is transmitted as given; and the x-auth-sign header sent is the
\* signature of the transmitted mapping.
C4_RequestIdStable ==
    \A c \in Callers :
        HasSent(c) /\ call[c].private =>
            LET tx == Transmitted(SentBy(c)) IN
            /\ tx # None
            /\ call[c].signed = tx
            /\ HasKey(tx[1], "request_id")
            /\ HasKey(OrEmpty(call[c].given), "request_id") =>
                  Lookup(tx[1], "request_id")
                      = Lookup(call[c].given[1], "request_id")
            /\ HasHeader(SentBy(c).headers, "x-auth-sign")
            /\ HeaderValue(SentBy(c).headers, "x-auth-sign")
                  = Sha256Hex(ValuesStr(tx[1], secret))

C4_Witness ==
    /\ HasSent(1)
    /\ call[1].private
    /\ call[1].given = Some(<<Item("request_id", StrV("7"))>>)
    /\ Transmitted(SentBy(1)) = Some(<<Item("request_id", StrV("7"))>>)
    /\ HeaderValue(SentBy(1).headers, "x-auth-sign") = "sha256(7s)"

\* C5: with a non-empty secret, two mappings holding the same key-to-value
\* pairs (top level and nested) in different insertion orders get the same
\* signature.
C5_OrderIndependent ==
    signStage = "reordered" => signOut2 = signOut

C5_Witness ==
    /\ signStage = "reordered"
    /\ signIn = <<Item("b", IntV(3)),
                  Item("a", DictV(<<Item("y", IntV(2)), Item("x", IntV(1))>>))>>
    /\ signIn2 = <<Item("a", DictV(<<Item("x", IntV(1)), Item("y", IntV(2))>>)),
                   Item("b", IntV(3))>>
    /\ ~signOut2.raised

\* The text of a nested mapping: the string forms of its values, by
\* ascending key from the i-th key of the key order on.
RECURSIVE NestedText(_, _)
NestedText(d, i) ==
    IF i > Len(KeyOrder) THEN ""
    ELSE (IF HasKey(d, KeyOrder[i]) THEN PyStr(Lookup(d, KeyOrder[i])) ELSE "")
             \o NestedText(d, i + 1)

\* The text one value contributes to the hash.
ValueText(v) == IF v.t = "dict" THEN NestedText(v.d, 1) ELSE PyStr(v)

\* The text of a parameter set: each value's text by ascending top-level key.
RECURSIVE CanonicalText(_, _)
CanonicalText(m, i) ==
    IF i > Len(KeyOrder) THEN ""
    ELSE (IF HasKey(m, KeyOrder[i]) THEN ValueText(Lookup(m, KeyOrder[i])) ELSE "")
             \o CanonicalText(m, i + 1)

\* C6: the string hashed is the string forms of the values by ascending
\* top-level key, a nested mapping giving its values by ascending nested key,
\* no key and no separator in it, then the secret; {a:{y:2,x:1}, b:3} with
\* secret s hashes "123s".
C6_HashedString ==
    signStage = "signed" =>
        /\ ~signOut.raised
        /\ signOut.sig = Sha256Hex(CanonicalText(signIn, 1) \o secret[1])
        /\ signIn = <<Item("a", DictV(<<Item("y", IntV(2)), Item("x", IntV(1))>>)),
                      Item("b", IntV(3))>>
              => signOut.sig = Sha256Hex("123" \o secret[1])

C6_Witness ==
    /\ signStage = "signed"
    /\ secret = Some("s")
    /\ signIn = <<Item("a", DictV(<<Item("y", IntV(2)), Item("x", IntV(1))>>)),
                  Item("b", IntV(3))>>
    /\ signOut.sig = "sha256(123s)"

\* C7: create_order whose trade type requires a rate or a stop rate that is
\* None ends in the invalid-argument error with no transport call; with the
\* required values it goes on to the dispatcher, its parameters holding rate
\* (LIMIT, STOP_LIMIT) and stop_rate (STOP_LIMIT) as strings and neither for
\* the other trade types.
C7_OrderValidation ==
    \A c \in Callers :
        /\ outcome[c].op = "create_order" =>
              IF RequiredSupplied(outcome[c].args)
              THEN outcome[c].kind # "InvalidArgument"
              ELSE outcome[c].kind = "InvalidArgument" /\ outcome[c].sends = 0
        /\ call[c].op = "create_order" =>
              LET a == call[c].args
                  p == call[c].params[1]
              IN /\ RequiredSupplied(a)
                 /\ HasKey(p, "rate") <=> a.type_trade \in {"LIMIT", "STOP_LIMIT"}
                 /\ HasKey(p, "stop_rate") <=> a.type_trade = "STOP_LIMIT"
                 /\ HasKey(p, "rate") =>
                       Lookup(p, "rate") = StrV(PyStr(FloatV(a.rate[1])))
                 /\ HasKey(p, "stop_rate") =>
                       Lookup(p, "stop_rate") = StrV(PyStr(FloatV(a.stop_rate[1])))

C7_Witness ==
    /\ outcome[1].op = "create_order"
    /\ outcome[1].args.type_trade = "STOP_LIMIT"
    /\ outcome[1].args.rate # None
    /\ outcome[1].args.stop_rate = None
    /\ outcome[1].kind = "InvalidArgument"
    /\ HasSent(1)
    /\ call[1].op = "create_order"
    /\ call[1].args.type_trade = "STOP_LIMIT"
    /\ Lookup(SentBy(1).json[1], "rate") = StrV("1.5")
    /\ Lookup(SentBy(1).json[1], "stop_rate") = StrV("2.0")

\* C8: two private calls whose request_id the dispatcher synthesized are
\* transmitted with different request_id values.
C8_RequestIdsDistinct ==
    \A c1, c2 \in Callers :
        /\ c1 # c2
        /\ HasSent(c1) /\ call[c1].synth
        /\ HasSent(c2) /\ call[c2].synth
        => Lookup(Transmitted(SentBy(c1))[1], "request_id")
              # Lookup(Transmitted(SentBy(c2))[1], "request_id")

\* The places where two mappings of the same length differ.
Changed == {i \in 1..Len(signIn) : signIn2[i] # signIn[i]}

Is2xx(status) == 200 <= status /\ status <= 299

\* C10: a response whose status is outside 200..299 ends _make_request in
\* the HTTP error with no data, after one transport call; only a 2xx
\* response returns the decoded body.
C10_Non2xxIsHttpError ==
    \A c \in Callers :
        /\ outcome[c].status # 0 /\ ~Is2xx(outcome[c].status) =>
              /\ outcome[c].kind = "HTTPError"
              /\ outcome[c].data = None
              /\ outcome[c].sends = 1
        /\ outcome[c].kind = "returned" => Is2xx(outcome[c].status)

====
